---- MODULE Spec2Model ----
(***************************************************************************)
(* Model of the course-manage backend (Express handlers over a Prisma      *)
(* store): courses and enrollment (routes/courses.js), lesson packages     *)
(* and payments (routes/packages.js), attendance (routes/attendance.js)    *)
(* and the authentication gate (middleware/auth.js).                       *)
(*                                                                         *)
(* The store is the state; every request handler is one action.  The two  *)
(* handlers whose claims are about concurrent requests (enroll, consume)   *)
(* are also given as one action per await, with the values a request read  *)
(* kept in its in-flight record.                                           *)
(*                                                                         *)
(* A request body is a record whose field "present" lists the keys the     *)
(* JSON body carries; the other fields hold the values of those keys.      *)
(* Times are integers (one unit = one hour slot).                          *)
(***************************************************************************)
EXTENDS Integers, FiniteSets, Sequences, TLC

----------------------------------------------------------------------------
(* Bounds of the model *)

MaxTime == 3

MaxCourses == 2

MaxCap == 2

MaxNow == 2

MaxEnrollCourses == 1

MaxPackages == 1

MaxHours == 2

MaxRecords == 3

MaxBatch == 2

MaxPayments == 2

(* Program constants *)

DefaultMaxStudents == 20

----------------------------------------------------------------------------
(* Users.  The user table is fixed here: one admin, two teachers, two     *)
(* students, all ACTIVE.                                                   *)

Admins == {"a1"}

Teachers == {"t1", "t2"}

Students == {"s1", "s2"}

UserIds == Admins \cup Teachers \cup Students

RoleOf(u) ==
    IF u \in Admins THEN "ADMIN" ELSE IF u \in Teachers THEN "TEACHER" ELSE "STUDENT"

Times == 0..MaxTime

CourseStatuses == {"SCHEDULED", "IN_PROGRESS", "COMPLETED", "CANCELLED"}

VARIABLES
    now,          \* the wall clock, new Date()
    users,        \* user table: id -> [role, status]
    courses,      \* course table: id -> row
    nextCourseId, \* ids are never reused
    links,        \* studentCourse table: set of [studentId, courseId]
    resp,         \* the response to the last request handled
    enrollReq,    \* in-flight enroll requests, one slot per student
    createReq,    \* in-flight course creations, one slot per teacher
    packages,     \* coursePackage table: id -> row
    nextPackageId,
    payments,     \* payment table: id -> row
    nextPaymentId,
    consumeReq,   \* in-flight consume requests, one slot per caller
    attendance,   \* attendanceRecord table: id -> row
    nextRecordId

packageVars == <<packages, nextPackageId, payments, nextPaymentId, consumeReq>>

attendanceVars == <<attendance, nextRecordId>>

vars == <<now, users, courses, nextCourseId, links, resp, enrollReq, createReq,
          packageVars, attendanceVars>>

Reply(op, code, msg) == [op |-> op, code |-> code, msg |-> msg]

Idle == [pc |-> "idle"]

----------------------------------------------------------------------------
(* middleware/auth.js *)

\* As Gate, without the test of the user's status
GateAnyStatus(u, roles) ==
    IF u \notin DOMAIN users THEN 401
    ELSE IF users[u].role \notin roles THEN 403
    ELSE 200

\* As Gate, without the test of the user's role
GateAnyRole(u, roles) ==
    IF u \notin DOMAIN users THEN 401
    ELSE IF users[u].status # "ACTIVE" THEN 401
    ELSE 200

\* auth followed by requireRole(roles): the status code the gate answers
\* with, 200 when the request goes on to the handler.
Gate(u, roles) ==
    IF u \notin DOMAIN users THEN 401
    ELSE IF users[u].status # "ACTIVE" THEN 401
    ELSE IF users[u].role \notin roles THEN 403
    ELSE 200

GateReply(op, u, roles) ==
    IF Gate(u, roles) = 401 THEN Reply(op, 401, "AuthFailed")
    ELSE Reply(op, 403, "Forbidden")

----------------------------------------------------------------------------
(* routes/courses.js *)

ActiveStatuses == {"SCHEDULED", "IN_PROGRESS"}

\* As ConflictingCourse, with lte for lt and gte for gt in the first two
\* branches: a window that only touches a course counts as a conflict.
ConflictingCourseClosed(cs, teacher, start, end, exclude) ==
    \E c \in DOMAIN cs \ exclude :
        /\ cs[c].teacherId = teacher
        /\ cs[c].status \in ActiveStatuses
        /\ \/ cs[c].startTime <= start /\ cs[c].endTime >= start
           \/ cs[c].startTime <= end /\ cs[c].endTime >= end
           \/ cs[c].startTime >= start /\ cs[c].endTime <= end

\* The where-clause of the conflictingCourse query: the rows of teacher's
\* scheduled or in-progress courses, other than those in exclude, matched
\* by one of the three OR branches.
ConflictingCourse(cs, teacher, start, end, exclude) ==
    \E c \in DOMAIN cs \ exclude :
        /\ cs[c].teacherId = teacher
        /\ cs[c].status \in ActiveStatuses
        /\ \/ cs[c].startTime <= start /\ cs[c].endTime > start
           \/ cs[c].startTime < end /\ cs[c].endTime >= end
           \/ cs[c].startTime >= start /\ cs[c].endTime <= end

\* prisma.course.create: currentStudents and status take the column defaults.
NewCourse(b, teacher) ==
    [ startTime       |-> b.startTime,
      endTime         |-> b.endTime,
      maxStudents     |-> IF "maxStudents" \in b.present
                          THEN b.maxStudents ELSE DefaultMaxStudents,
      currentStudents |-> 0,
      status          |-> "SCHEDULED",
      teacherId       |-> teacher ]

FinalTeacherId(u, b) == IF "teacherId" \in b.present THEN b.teacherId ELSE u

CreateCourseReply(u, b) ==
    LET op == "createCourse" IN
    IF Gate(u, {"ADMIN", "TEACHER"}) # 200 THEN GateReply(op, u, {"ADMIN", "TEACHER"})
    ELSE IF "maxStudents" \in b.present /\ b.maxStudents < 1
        THEN Reply(op, 400, "Validation")
    ELSE IF b.startTime >= b.endTime THEN Reply(op, 400, "EndNotAfterStart")
    ELSE IF b.startTime <= now THEN Reply(op, 400, "StartInPast")
    ELSE IF \/ FinalTeacherId(u, b) \notin DOMAIN users
            \/ users[FinalTeacherId(u, b)].role # "TEACHER"
        THEN Reply(op, 400, "NoSuchTeacher")
    ELSE IF ConflictingCourse(courses, FinalTeacherId(u, b), b.startTime, b.endTime, {})
        THEN Reply(op, 400, "TimeConflict")
    ELSE Reply(op, 201, "Created")

CreateCourse(u, b) ==
    /\ nextCourseId <= MaxCourses
    /\ resp' = CreateCourseReply(u, b)
    /\ IF CreateCourseReply(u, b).code = 201
       THEN /\ courses' = courses @@ (nextCourseId :> NewCourse(b, FinalTeacherId(u, b)))
            /\ nextCourseId' = nextCourseId + 1
       ELSE UNCHANGED <<courses, nextCourseId>>
    /\ UNCHANGED <<packageVars, attendanceVars, now, users, links, enrollReq, createReq>>

\* prisma.course.update({ data: updateData }) with updateData = req.body:
\* every column the body names is overwritten.
MergeCourse(row, b) ==
    [ startTime       |-> IF "startTime" \in b.present THEN b.startTime ELSE row.startTime,
      endTime         |-> IF "endTime" \in b.present THEN b.endTime ELSE row.endTime,
      maxStudents     |-> IF "maxStudents" \in b.present
                          THEN b.maxStudents ELSE row.maxStudents,
      currentStudents |-> IF "currentStudents" \in b.present
                          THEN b.currentStudents ELSE row.currentStudents,
      status          |-> IF "status" \in b.present THEN b.status ELSE row.status,
      teacherId       |-> IF "teacherId" \in b.present THEN b.teacherId ELSE row.teacherId ]

UpdateStart(row, b) == IF "startTime" \in b.present THEN b.startTime ELSE row.startTime

UpdateEnd(row, b) == IF "endTime" \in b.present THEN b.endTime ELSE row.endTime

UpdateCourseReply(u, id, b) ==
    LET op == "updateCourse" IN
    IF Gate(u, {"ADMIN", "TEACHER"}) # 200 THEN GateReply(op, u, {"ADMIN", "TEACHER"})
    ELSE IF "maxStudents" \in b.present /\ b.maxStudents < 1
        THEN Reply(op, 400, "Validation")
    ELSE IF id \notin DOMAIN courses THEN Reply(op, 404, "NoCourse")
    ELSE IF courses[id].teacherId # u /\ users[u].role # "ADMIN"
        THEN Reply(op, 403, "Forbidden")
    ELSE IF /\ b.present \cap {"startTime", "endTime"} # {}
            /\ UpdateStart(courses[id], b) >= UpdateEnd(courses[id], b)
        THEN Reply(op, 400, "EndNotAfterStart")
    ELSE IF /\ b.present \cap {"startTime", "endTime"} # {}
            /\ ConflictingCourse(courses, courses[id].teacherId,
                                 UpdateStart(courses[id], b), UpdateEnd(courses[id], b), {id})
        THEN Reply(op, 400, "TimeConflict")
    ELSE IF "teacherId" \in b.present /\ b.teacherId \notin DOMAIN users
        THEN Reply(op, 500, "StoreError")
    ELSE Reply(op, 200, "Updated")

UpdateCourse(u, id, b) ==
    /\ resp' = UpdateCourseReply(u, id, b)
    /\ IF UpdateCourseReply(u, id, b).code = 200
       THEN courses' = [courses EXCEPT ![id] = MergeCourse(@, b)]
       ELSE UNCHANGED courses
    /\ UNCHANGED <<packageVars, attendanceVars, now, users, nextCourseId, links, enrollReq, createReq>>

\* As DeleteCourseReply, without the status test
DeleteCourseReplyAnyStatus(u, id) ==
    LET op == "deleteCourse" IN
    IF Gate(u, {"ADMIN", "TEACHER"}) # 200 THEN GateReply(op, u, {"ADMIN", "TEACHER"})
    ELSE IF id \notin DOMAIN courses THEN Reply(op, 404, "NoCourse")
    ELSE IF courses[id].teacherId # u /\ users[u].role # "ADMIN"
        THEN Reply(op, 403, "Forbidden")
    ELSE Reply(op, 200, "Deleted")

DeleteCourseReply(u, id) ==
    LET op == "deleteCourse" IN
    IF Gate(u, {"ADMIN", "TEACHER"}) # 200 THEN GateReply(op, u, {"ADMIN", "TEACHER"})
    ELSE IF id \notin DOMAIN courses THEN Reply(op, 404, "NoCourse")
    ELSE IF courses[id].teacherId # u /\ users[u].role # "ADMIN"
        THEN Reply(op, 403, "Forbidden")
    ELSE IF courses[id].status \in {"IN_PROGRESS", "COMPLETED"}
        THEN Reply(op, 400, "NotDeletable")
    ELSE Reply(op, 200, "Deleted")

\* What the store does with the attendance rows of a course when the course
\* row is deleted.  The relation's referential action is fixed by the store
\* schema, which the handler does not set: the rows are deleted with the
\* course ("cascade"), the delete is refused ("restrict"), or the rows stay
\* ("orphan").  A course without attendance rows is simply deleted.
DeleteOutcomes(id) ==
    IF \E r \in DOMAIN attendance : attendance[r].courseId = id
    THEN {"cascade", "restrict", "orphan"}
    ELSE {"plain"}

\* prisma.studentCourse.deleteMany, then prisma.course.delete, not in a
\* transaction: when the delete is refused the links are already gone and
\* the catch block answers 500.
DeleteCourse(u, id) ==
    /\ IF DeleteCourseReply(u, id).code = 200
       THEN \E outcome \in DeleteOutcomes(id) :
            /\ links' = {l \in links : l.courseId # id}
            /\ IF outcome = "restrict"
               THEN /\ resp' = Reply("deleteCourse", 500, "StoreError")
                    /\ UNCHANGED <<courses, attendance>>
               ELSE /\ resp' = DeleteCourseReply(u, id)
                    /\ courses' = [c \in DOMAIN courses \ {id} |-> courses[c]]
                    /\ IF outcome = "cascade"
                       THEN attendance' =
                               [r \in {x \in DOMAIN attendance :
                                          attendance[x].courseId # id}
                                   |-> attendance[r]]
                       ELSE UNCHANGED attendance
       ELSE /\ resp' = DeleteCourseReply(u, id)
            /\ UNCHANGED <<courses, links, attendance>>
    /\ UNCHANGED <<packageVars, nextRecordId, now, users, nextCourseId, enrollReq, createReq>>

Link(s, id) == [studentId |-> s, courseId |-> id]

\* As CourseFull, with > for >=
CourseFullStrict(row) == row.currentStudents > row.maxStudents

\* if (course.currentStudents >= course.maxStudents): the course is full
CourseFull(row) == row.currentStudents >= row.maxStudents

\* The checks of the enroll handler on the course row it looked up and on
\* the enrollment lookup.
EnrollReply(u, id) ==
    LET op == "enroll" IN
    IF Gate(u, {"STUDENT"}) # 200 THEN GateReply(op, u, {"STUDENT"})
    ELSE IF id \notin DOMAIN courses THEN Reply(op, 404, "NoCourse")
    ELSE IF courses[id].status # "SCHEDULED" THEN Reply(op, 400, "NotOpen")
    ELSE IF Link(u, id) \in links THEN Reply(op, 400, "AlreadyEnrolled")
    ELSE IF CourseFull(courses[id]) THEN Reply(op, 400, "CourseFull")
    ELSE Reply(op, 200, "Enrolled")

\* prisma.$transaction([studentCourse.create, course.update increment])
EnrollTx(cs, ls, s, id) ==
    [ courses |-> [cs EXCEPT ![id].currentStudents = @ + 1],
      links   |-> ls \cup {Link(s, id)} ]

Enroll(u, id) ==
    /\ resp' = EnrollReply(u, id)
    /\ IF EnrollReply(u, id).code = 200
       THEN /\ courses' = EnrollTx(courses, links, u, id).courses
            /\ links' = EnrollTx(courses, links, u, id).links
       ELSE UNCHANGED <<courses, links>>
    /\ UNCHANGED <<packageVars, attendanceVars, now, users, nextCourseId, enrollReq, createReq>>

\* As CancelEnrollReply, answering success when there is no link
CancelEnrollReplySilent(u, id) ==
    LET op == "cancelEnroll" IN
    IF Gate(u, {"STUDENT"}) # 200 THEN GateReply(op, u, {"STUDENT"})
    ELSE IF Link(u, id) \notin links THEN Reply(op, 200, "Cancelled")
    ELSE IF courses[id].status # "SCHEDULED" THEN Reply(op, 400, "AlreadyStarted")
    ELSE Reply(op, 200, "Cancelled")

CancelEnrollReply(u, id) ==
    LET op == "cancelEnroll" IN
    IF Gate(u, {"STUDENT"}) # 200 THEN GateReply(op, u, {"STUDENT"})
    ELSE IF Link(u, id) \notin links THEN Reply(op, 404, "NoEnrollment")
    ELSE IF courses[id].status # "SCHEDULED" THEN Reply(op, 400, "AlreadyStarted")
    ELSE Reply(op, 200, "Cancelled")

\* As CancelTx, deleting every link of the course
CancelTxAll(cs, ls, s, id) ==
    [ courses |-> [cs EXCEPT ![id].currentStudents = @ - 1],
      links   |-> {l \in ls : l.courseId # id} ]

\* prisma.$transaction([studentCourse.delete, course.update decrement])
CancelTx(cs, ls, s, id) ==
    [ courses |-> [cs EXCEPT ![id].currentStudents = @ - 1],
      links   |-> ls \ {Link(s, id)} ]

CancelEnroll(u, id) ==
    /\ resp' = CancelEnrollReply(u, id)
    /\ IF CancelEnrollReply(u, id).code = 200
       THEN /\ courses' = CancelTx(courses, links, u, id).courses
            /\ links' = CancelTx(courses, links, u, id).links
       ELSE UNCHANGED <<courses, links>>
    /\ UNCHANGED <<packageVars, attendanceVars, now, users, nextCourseId, enrollReq, createReq>>

\* Time passes.
Tick ==
    /\ now < MaxNow
    /\ now' = now + 1
    /\ UNCHANGED <<packageVars, attendanceVars, users, courses, nextCourseId, links, resp,
                   enrollReq, createReq>>

----------------------------------------------------------------------------
Init ==
    /\ now = 0
    /\ users = [u \in UserIds |-> [role |-> RoleOf(u), status |-> "ACTIVE"]]
    /\ courses = <<>>
    /\ nextCourseId = 1
    /\ links = {}
    /\ resp = Reply("none", 0, "none")
    /\ enrollReq = [s \in Students |-> Idle]
    /\ createReq = [u \in Teachers |-> Idle]
    /\ packages = <<>>
    /\ nextPackageId = 1
    /\ payments = <<>>
    /\ nextPaymentId = 1
    /\ consumeReq = [u \in Teachers |-> Idle]
    /\ attendance = <<>>
    /\ nextRecordId = 1

----------------------------------------------------------------------------
(* The enroll handler, one action per await.  A request keeps the course   *)
(* row it read at its first await; the capacity test runs on that row.     *)

\* auth, requireRole, then prisma.course.findUnique and the status test
EnrollLookupReply(s, id) ==
    LET op == "enroll" IN
    IF Gate(s, {"STUDENT"}) # 200 THEN GateReply(op, s, {"STUDENT"})
    ELSE IF id \notin DOMAIN courses THEN Reply(op, 404, "NoCourse")
    ELSE IF courses[id].status # "SCHEDULED" THEN Reply(op, 400, "NotOpen")
    ELSE Reply(op, 200, "Looked")

EnrollLookup(s, id) ==
    /\ enrollReq[s].pc = "idle"
    /\ IF EnrollLookupReply(s, id).code = 200
       THEN /\ enrollReq' = [enrollReq EXCEPT ![s] =
                   [pc |-> "looked", courseId |-> id, course |-> courses[id]]]
            /\ UNCHANGED resp
       ELSE /\ resp' = EnrollLookupReply(s, id)
            /\ UNCHANGED enrollReq
    /\ UNCHANGED <<packageVars, attendanceVars, now, users, courses, nextCourseId, links,
                   createReq>>

\* prisma.studentCourse.findUnique, then the capacity test on the row read
\* by the lookup
EnrollCheckReply(s) ==
    LET op == "enroll" IN
    IF Link(s, enrollReq[s].courseId) \in links THEN Reply(op, 400, "AlreadyEnrolled")
    ELSE IF CourseFull(enrollReq[s].course) THEN Reply(op, 400, "CourseFull")
    ELSE Reply(op, 200, "Checked")

EnrollCheck(s) ==
    /\ enrollReq[s].pc = "looked"
    /\ IF EnrollCheckReply(s).code = 200
       THEN /\ enrollReq' = [enrollReq EXCEPT ![s].pc = "checked"]
            /\ UNCHANGED resp
       ELSE /\ resp' = EnrollCheckReply(s)
            /\ enrollReq' = [enrollReq EXCEPT ![s] = Idle]
    /\ UNCHANGED <<packageVars, attendanceVars, now, users, courses, nextCourseId, links,
                   createReq>>

\* The transaction on the store as it is now.  The link insert fails when
\* the course row is gone or the (studentId, courseId) key exists; the
\* transaction then rolls back and the catch block answers 500.
EnrollCommitReply(s) ==
    LET op == "enroll" IN
    IF \/ enrollReq[s].courseId \notin DOMAIN courses
       \/ Link(s, enrollReq[s].courseId) \in links
    THEN Reply(op, 500, "StoreError")
    ELSE Reply(op, 200, "Enrolled")

EnrollCommit(s) ==
    /\ enrollReq[s].pc = "checked"
    /\ resp' = EnrollCommitReply(s)
    /\ enrollReq' = [enrollReq EXCEPT ![s] = Idle]
    /\ IF EnrollCommitReply(s).code = 200
       THEN /\ courses' = EnrollTx(courses, links, s, enrollReq[s].courseId).courses
            /\ links' = EnrollTx(courses, links, s, enrollReq[s].courseId).links
       ELSE UNCHANGED <<courses, links>>
    /\ UNCHANGED <<packageVars, attendanceVars, now, users, nextCourseId, createReq>>

----------------------------------------------------------------------------
(* The course creation handler, one action per await that matters: the     *)
(* checks up to the conflict query, then the insert.                       *)

CreatesInFlight == Cardinality({t \in DOMAIN createReq : createReq[t].pc = "looked"})

\* auth, requireRole, validation, the window tests, the teacher lookup and
\* the conflictingCourse query on the store as it is now
CreateLookup(u, b) ==
    /\ createReq[u].pc = "idle"
    /\ nextCourseId + CreatesInFlight <= MaxCourses
    /\ IF CreateCourseReply(u, b).code = 201
       THEN /\ createReq' = [createReq EXCEPT ![u] =
                   [pc |-> "looked", body |-> b, teacherId |-> FinalTeacherId(u, b)]]
            /\ UNCHANGED resp
       ELSE /\ resp' = CreateCourseReply(u, b)
            /\ UNCHANGED createReq
    /\ UNCHANGED <<packageVars, attendanceVars, now, users, courses, nextCourseId, links,
                   enrollReq>>

\* prisma.course.create with the values the request validated
CreateInsert(u) ==
    /\ createReq[u].pc = "looked"
    /\ resp' = Reply("createCourse", 201, "Created")
    /\ courses' = courses @@
           (nextCourseId :> NewCourse(createReq[u].body, createReq[u].teacherId))
    /\ nextCourseId' = nextCourseId + 1
    /\ createReq' = [createReq EXCEPT ![u] = Idle]
    /\ UNCHANGED <<packageVars, attendanceVars, now, users, links, enrollReq>>

----------------------------------------------------------------------------
(* routes/packages.js *)

PackageStatuses == {"ACTIVE", "EXPIRED", "COMPLETED", "CANCELLED"}

courseVars == <<courses, nextCourseId, links, enrollReq, createReq>>

\* expiresAt = new Date(); expiresAt.setDate(expiresAt.getDate() + validDays)
ExpiresAt(validDays) == now + validDays

\* prisma.coursePackage.create: usedHours and status take the column defaults.
NewPackage(b, student) ==
    [ totalHours |-> b.totalHours,
      usedHours  |-> 0,
      price      |-> b.price,
      status     |-> "ACTIVE",
      expiresAt  |-> ExpiresAt(b.validDays),
      studentId  |-> student ]

\* body('totalHours').isInt({min: 1}), body('price').isFloat({min: 0}),
\* body('validDays').isInt({min: 1})
PackageBodyValid(b) == b.totalHours >= 1 /\ b.price >= 0 /\ b.validDays >= 1

CreatePackageReply(u, b) ==
    LET op == "createPackage" IN
    IF Gate(u, {"ADMIN"}) # 200 THEN GateReply(op, u, {"ADMIN"})
    ELSE IF ~PackageBodyValid(b) THEN Reply(op, 400, "Validation")
    ELSE IF b.studentId \notin DOMAIN users \/ users[b.studentId].role # "STUDENT"
        THEN Reply(op, 400, "NoSuchStudent")
    ELSE Reply(op, 201, "Created")

CreatePackage(u, b) ==
    /\ nextPackageId <= MaxPackages
    /\ resp' = CreatePackageReply(u, b)
    /\ IF CreatePackageReply(u, b).code = 201
       THEN /\ packages' = packages @@ (nextPackageId :> NewPackage(b, b.studentId))
            /\ nextPackageId' = nextPackageId + 1
       ELSE UNCHANGED <<packages, nextPackageId>>
    /\ UNCHANGED <<courseVars, attendanceVars, now, users, payments, nextPaymentId,
                   consumeReq>>

\* prisma.coursePackage.update({ data: updateData }) with updateData = req.body
MergePackage(row, b) ==
    [ totalHours |-> IF "totalHours" \in b.present THEN b.totalHours ELSE row.totalHours,
      usedHours  |-> IF "usedHours" \in b.present THEN b.usedHours ELSE row.usedHours,
      price      |-> row.price,
      status     |-> IF "status" \in b.present THEN b.status ELSE row.status,
      expiresAt  |-> row.expiresAt,
      studentId  |-> row.studentId ]

UpdatePackageReply(u, id, b) ==
    LET op == "updatePackage" IN
    IF Gate(u, {"ADMIN"}) # 200 THEN GateReply(op, u, {"ADMIN"})
    ELSE IF "status" \in b.present /\ b.status \notin PackageStatuses
        THEN Reply(op, 400, "Validation")
    ELSE IF id \notin DOMAIN packages THEN Reply(op, 404, "NoPackage")
    ELSE Reply(op, 200, "Updated")

UpdatePackage(u, id, b) ==
    /\ resp' = UpdatePackageReply(u, id, b)
    /\ IF UpdatePackageReply(u, id, b).code = 200
       THEN packages' = [packages EXCEPT ![id] = MergePackage(@, b)]
       ELSE UNCHANGED packages
    /\ UNCHANGED <<courseVars, attendanceVars, now, users, nextPackageId, payments,
                   nextPaymentId, consumeReq>>

DeletePackageReply(u, id) ==
    LET op == "deletePackage" IN
    IF Gate(u, {"ADMIN"}) # 200 THEN GateReply(op, u, {"ADMIN"})
    ELSE IF id \notin DOMAIN packages THEN Reply(op, 404, "NoPackage")
    ELSE IF packages[id].usedHours > 0 THEN Reply(op, 400, "PackageUsed")
    ELSE Reply(op, 200, "Deleted")

DeletePackage(u, id) ==
    /\ resp' = DeletePackageReply(u, id)
    /\ IF DeletePackageReply(u, id).code = 200
       THEN /\ payments' = [q \in {x \in DOMAIN payments : payments[x].packageId # id}
                               |-> payments[q]]
            /\ packages' = [q \in DOMAIN packages \ {id} |-> packages[q]]
       ELSE UNCHANGED <<packages, payments>>
    /\ UNCHANGED <<courseVars, attendanceVars, now, users, nextPackageId, nextPaymentId,
                   consumeReq>>

\* tx.payment.create inside the purchase transaction
PurchasePayment(b, student, packageId) ==
    [ amount    |-> b.price,
      status    |-> "PAID",
      packageId |-> packageId,
      studentId |-> student ]

PurchaseReply(u, b) ==
    LET op == "purchase" IN
    IF Gate(u, {"STUDENT"}) # 200 THEN GateReply(op, u, {"STUDENT"})
    ELSE IF ~PackageBodyValid(b) THEN Reply(op, 400, "Validation")
    ELSE Reply(op, 201, "Purchased")

\* As PurchaseTx, without rollback: the package written before the failed
\* payment write stays
PurchaseNoRollback(b, u, paymentWritten) ==
    [ packages      |-> packages @@ (nextPackageId :> NewPackage(b, u)),
      nextPackageId |-> nextPackageId + 1,
      payments      |-> IF paymentWritten
                        THEN payments @@
                               (nextPaymentId :> PurchasePayment(b, u, nextPackageId))
                        ELSE payments,
      nextPaymentId |-> IF paymentWritten THEN nextPaymentId + 1 ELSE nextPaymentId ]

\* prisma.$transaction(async (tx) => { tx.coursePackage.create;
\* tx.payment.create }): the tables after the transaction.  When the payment
\* write throws, the transaction rolls back and the package write is undone.
PurchaseTx(b, u, paymentWritten) ==
    IF paymentWritten
    THEN [ packages      |-> packages @@ (nextPackageId :> NewPackage(b, u)),
           nextPackageId |-> nextPackageId + 1,
           payments      |-> payments @@
                               (nextPaymentId :> PurchasePayment(b, u, nextPackageId)),
           nextPaymentId |-> nextPaymentId + 1 ]
    ELSE [ packages      |-> packages,
           nextPackageId |-> nextPackageId,
           payments      |-> payments,
           nextPaymentId |-> nextPaymentId ]

\* The payment write of the transaction succeeds or throws (a store error);
\* a throw is answered 500 by the catch block.
Purchase(u, b) ==
    /\ nextPackageId <= MaxPackages
    /\ IF PurchaseReply(u, b).code = 201
       THEN \E paymentWritten \in BOOLEAN :
            /\ resp' = IF paymentWritten THEN PurchaseReply(u, b)
                       ELSE Reply("purchase", 500, "StoreError")
            /\ packages' = PurchaseTx(b, u, paymentWritten).packages
            /\ nextPackageId' = PurchaseTx(b, u, paymentWritten).nextPackageId
            /\ payments' = PurchaseTx(b, u, paymentWritten).payments
            /\ nextPaymentId' = PurchaseTx(b, u, paymentWritten).nextPaymentId
       ELSE /\ resp' = PurchaseReply(u, b)
            /\ UNCHANGED <<packages, nextPackageId, payments, nextPaymentId>>
    /\ UNCHANGED <<courseVars, attendanceVars, now, users, consumeReq>>

\* As NewStatus, with > for >=
NewStatusStrict(newUsedHours, totalHours) ==
    IF newUsedHours > totalHours THEN "COMPLETED" ELSE "ACTIVE"

\* const newStatus = newUsedHours >= coursePackage.totalHours ? 'COMPLETED' : 'ACTIVE'
NewStatus(newUsedHours, totalHours) ==
    IF newUsedHours >= totalHours THEN "COMPLETED" ELSE "ACTIVE"

\* The row the consume handler writes, computed from the row it read
ConsumedRow(row, hours) ==
    [row EXCEPT !.usedHours = row.usedHours + hours,
                !.status = NewStatus(row.usedHours + hours, row.totalHours)]

\* As PackageCheck, without the expiry test
PackageCheckNoExpiry(op, row, hours) ==
    IF row.status # "ACTIVE" THEN Reply(op, 400, "NotActive")
    ELSE IF row.totalHours - row.usedHours < hours THEN Reply(op, 400, "InsufficientHours")
    ELSE Reply(op, 200, "Checked")

\* As PackageCheck, with the remaining-hours test first
PackageCheckHoursFirst(op, row, hours) ==
    IF row.totalHours - row.usedHours < hours THEN Reply(op, 400, "InsufficientHours")
    ELSE IF row.status # "ACTIVE" THEN Reply(op, 400, "NotActive")
    ELSE IF row.expiresAt < now THEN Reply(op, 400, "Expired")
    ELSE Reply(op, 200, "Checked")

\* The checks of the consume handler on the package row it read
PackageCheck(op, row, hours) ==
    IF row.status # "ACTIVE" THEN Reply(op, 400, "NotActive")
    ELSE IF row.expiresAt < now THEN Reply(op, 400, "Expired")
    ELSE IF row.totalHours - row.usedHours < hours THEN Reply(op, 400, "InsufficientHours")
    ELSE Reply(op, 200, "Checked")

ConsumeReply(u, id, hours, courseId) ==
    LET op == "consume" IN
    IF Gate(u, {"ADMIN", "TEACHER"}) # 200 THEN GateReply(op, u, {"ADMIN", "TEACHER"})
    ELSE IF hours < 1 THEN Reply(op, 400, "Validation")
    ELSE IF id \notin DOMAIN packages THEN Reply(op, 404, "NoPackage")
    ELSE IF PackageCheck(op, packages[id], hours).code # 200
        THEN PackageCheck(op, packages[id], hours)
    ELSE IF courseId \notin DOMAIN courses THEN Reply(op, 404, "NoCourse")
    ELSE Reply(op, 200, "Consumed")

Consume(u, id, hours, courseId) ==
    /\ resp' = ConsumeReply(u, id, hours, courseId)
    /\ IF ConsumeReply(u, id, hours, courseId).code = 200
       THEN packages' = [packages EXCEPT ![id] = ConsumedRow(@, hours)]
       ELSE UNCHANGED packages
    /\ UNCHANGED <<courseVars, attendanceVars, now, users, nextPackageId, payments,
                   nextPaymentId, consumeReq>>

----------------------------------------------------------------------------
(* The consume handler, one action per await.  A request keeps the package *)
(* row it read at its first await; the row it writes is computed from it.  *)

\* auth, requireRole, validation, prisma.coursePackage.findUnique and the
\* checks on the row read
ConsumeReadReply(u, id, hours) ==
    LET op == "consume" IN
    IF Gate(u, {"ADMIN", "TEACHER"}) # 200 THEN GateReply(op, u, {"ADMIN", "TEACHER"})
    ELSE IF hours < 1 THEN Reply(op, 400, "Validation")
    ELSE IF id \notin DOMAIN packages THEN Reply(op, 404, "NoPackage")
    ELSE PackageCheck(op, packages[id], hours)

ConsumeRead(u, id, hours, courseId) ==
    /\ consumeReq[u].pc = "idle"
    /\ IF ConsumeReadReply(u, id, hours).code = 200
       THEN /\ consumeReq' = [consumeReq EXCEPT ![u] =
                   [pc |-> "read", id |-> id, hours |-> hours, courseId |-> courseId,
                    row |-> packages[id]]]
            /\ UNCHANGED resp
       ELSE /\ resp' = ConsumeReadReply(u, id, hours)
            /\ UNCHANGED consumeReq
    /\ UNCHANGED <<courseVars, attendanceVars, now, users, packages, nextPackageId,
                   payments, nextPaymentId>>

\* prisma.course.findUnique
ConsumeFindCourse(u) ==
    /\ consumeReq[u].pc = "read"
    /\ IF consumeReq[u].courseId \in DOMAIN courses
       THEN /\ consumeReq' = [consumeReq EXCEPT ![u].pc = "found"]
            /\ UNCHANGED resp
       ELSE /\ resp' = Reply("consume", 404, "NoCourse")
            /\ consumeReq' = [consumeReq EXCEPT ![u] = Idle]
    /\ UNCHANGED <<courseVars, attendanceVars, now, users, packages, nextPackageId,
                   payments, nextPaymentId>>

\* prisma.coursePackage.update({ usedHours: newUsedHours, status: newStatus });
\* the update throws when the row is gone and the catch block answers 500.
ConsumeWriteReply(u) ==
    IF consumeReq[u].id \notin DOMAIN packages THEN Reply("consume", 500, "StoreError")
    ELSE Reply("consume", 200, "Consumed")

ConsumeWrite(u) ==
    /\ consumeReq[u].pc = "found"
    /\ resp' = ConsumeWriteReply(u)
    /\ consumeReq' = [consumeReq EXCEPT ![u] = Idle]
    /\ IF ConsumeWriteReply(u).code = 200
       THEN packages' = [packages EXCEPT ![consumeReq[u].id] =
                [@ EXCEPT !.usedHours = ConsumedRow(consumeReq[u].row, consumeReq[u].hours).usedHours,
                          !.status = ConsumedRow(consumeReq[u].row, consumeReq[u].hours).status]]
       ELSE UNCHANGED packages
    /\ UNCHANGED <<courseVars, attendanceVars, now, users, nextPackageId, payments,
                   nextPaymentId>>

----------------------------------------------------------------------------
(* routes/users.js and routes/auth.js.  A request of caller u carries a    *)
(* valid token whose userId is u.                                          *)

UserStatuses == {"ACTIVE", "INACTIVE", "SUSPENDED"}

Roles == {"ADMIN", "TEACHER", "STUDENT"}

userFrame == <<courseVars, packageVars, attendanceVars, now>>

\* POST /auth/login with the user's email and a password that bcrypt.compare
\* accepts or not
LoginReply(u, passwordValid) ==
    LET op == "login" IN
    IF u \notin DOMAIN users THEN Reply(op, 401, "BadCredentials")
    ELSE IF ~passwordValid THEN Reply(op, 401, "BadCredentials")
    ELSE IF users[u].status # "ACTIVE" THEN Reply(op, 401, "AccountDisabled")
    ELSE Reply(op, 200, "LoggedIn")

Login(u, passwordValid) ==
    /\ resp' = LoginReply(u, passwordValid)
    /\ UNCHANGED <<userFrame, users>>

\* GET /auth/me: the auth middleware alone
MeReply(u) ==
    IF Gate(u, Roles) # 200 THEN GateReply("me", u, Roles) ELSE Reply("me", 200, "Me")

Me(u) ==
    /\ resp' = MeReply(u)
    /\ UNCHANGED <<userFrame, users>>

UpdateUserReply(u, id, b) ==
    LET op == "updateUser" IN
    IF Gate(u, Roles) # 200 THEN GateReply(op, u, Roles)
    ELSE IF "status" \in b.present /\ b.status \notin UserStatuses
        THEN Reply(op, 400, "Validation")
    ELSE IF u # id /\ users[u].role # "ADMIN" THEN Reply(op, 403, "Forbidden")
    ELSE IF id \notin DOMAIN users THEN Reply(op, 500, "StoreError")
    ELSE Reply(op, 200, "Updated")

\* As UpdateUser, writing the body's status whatever the caller's role
UpdateUserAnyCaller(u, id, b) ==
    /\ resp' = UpdateUserReply(u, id, b)
    /\ IF UpdateUserReply(u, id, b).code = 200 /\ "status" \in b.present
       THEN users' = [users EXCEPT ![id].status = b.status]
       ELSE UNCHANGED users
    /\ UNCHANGED userFrame

\* updateData = { name, phone }, with status added when the caller is an
\* admin and the body has one
UpdateUser(u, id, b) ==
    /\ resp' = UpdateUserReply(u, id, b)
    /\ IF /\ UpdateUserReply(u, id, b).code = 200
          /\ users[u].role = "ADMIN"
          /\ "status" \in b.present
       THEN users' = [users EXCEPT ![id].status = b.status]
       ELSE UNCHANGED users
    /\ UNCHANGED userFrame

DeleteUserReply(u, id) ==
    LET op == "deleteUser" IN
    IF Gate(u, {"ADMIN"}) # 200 THEN GateReply(op, u, {"ADMIN"})
    ELSE IF id \notin DOMAIN users THEN Reply(op, 404, "NoUser")
    ELSE Reply(op, 200, "Deleted")

\* Soft delete: prisma.user.update({ data: { status: 'SUSPENDED' } })
DeleteUser(u, id) ==
    /\ resp' = DeleteUserReply(u, id)
    /\ IF DeleteUserReply(u, id).code = 200
       THEN users' = [users EXCEPT ![id].status = "SUSPENDED"]
       ELSE UNCHANGED users
    /\ UNCHANGED userFrame

\* POST /users.  The email is the key of the new row; status defaults to
\* ACTIVE.
CreateUserReply(u, b) ==
    LET op == "createUser" IN
    IF Gate(u, {"ADMIN"}) # 200 THEN GateReply(op, u, {"ADMIN"})
    ELSE IF b.role \notin Roles THEN Reply(op, 400, "Validation")
    ELSE IF b.email \in DOMAIN users THEN Reply(op, 400, "EmailTaken")
    ELSE Reply(op, 201, "Created")

CreateUser(u, b) ==
    /\ resp' = CreateUserReply(u, b)
    /\ IF CreateUserReply(u, b).code = 201
       THEN users' = users @@ (b.email :> [role |-> b.role, status |-> "ACTIVE"])
       ELSE UNCHANGED users
    /\ UNCHANGED userFrame

----------------------------------------------------------------------------
(* routes/payments.js.  A payment row's packageId is 0 when the payment   *)
(* belongs to no package.                                                  *)

PaymentStatuses == {"PENDING", "PAID", "FAILED", "REFUNDED"}

\* prisma.payment.create of the standalone creation
NewPayment(b) ==
    [ amount    |-> b.amount,
      status    |-> b.status,
      packageId |-> IF "packageId" \in b.present THEN b.packageId ELSE 0,
      studentId |-> b.studentId ]

CreatePaymentReply(u, b) ==
    LET op == "createPayment" IN
    IF Gate(u, {"ADMIN"}) # 200 THEN GateReply(op, u, {"ADMIN"})
    ELSE IF b.amount < 0 \/ b.status \notin PaymentStatuses
        THEN Reply(op, 400, "Validation")
    ELSE IF b.studentId \notin DOMAIN users \/ users[b.studentId].role # "STUDENT"
        THEN Reply(op, 400, "NoSuchStudent")
    ELSE IF "packageId" \in b.present /\ b.packageId \notin DOMAIN packages
        THEN Reply(op, 404, "NoPackage")
    ELSE IF "packageId" \in b.present /\ packages[b.packageId].studentId # b.studentId
        THEN Reply(op, 400, "NotOwnPackage")
    ELSE Reply(op, 201, "Created")

CreatePayment(u, b) ==
    /\ nextPaymentId <= MaxPayments
    /\ resp' = CreatePaymentReply(u, b)
    /\ IF CreatePaymentReply(u, b).code = 201
       THEN /\ payments' = payments @@ (nextPaymentId :> NewPayment(b))
            /\ nextPaymentId' = nextPaymentId + 1
       ELSE UNCHANGED <<payments, nextPaymentId>>
    /\ UNCHANGED <<courseVars, attendanceVars, now, users, packages, nextPackageId,
                   consumeReq>>

UpdatePaymentStatusReply(u, id, status) ==
    LET op == "updatePaymentStatus" IN
    IF Gate(u, {"ADMIN"}) # 200 THEN GateReply(op, u, {"ADMIN"})
    ELSE IF status \notin PaymentStatuses THEN Reply(op, 400, "Validation")
    ELSE IF id \notin DOMAIN payments THEN Reply(op, 404, "NoPayment")
    ELSE Reply(op, 200, "Updated")

\* prisma.payment.update({ data: { status, notes } })
UpdatePaymentStatus(u, id, status) ==
    /\ resp' = UpdatePaymentStatusReply(u, id, status)
    /\ IF UpdatePaymentStatusReply(u, id, status).code = 200
       THEN payments' = [payments EXCEPT ![id].status = status]
       ELSE UNCHANGED payments
    /\ UNCHANGED <<courseVars, attendanceVars, now, users, packages, nextPackageId,
                   nextPaymentId, consumeReq>>

DeletePaymentReply(u, id) ==
    LET op == "deletePayment" IN
    IF Gate(u, {"ADMIN"}) # 200 THEN GateReply(op, u, {"ADMIN"})
    ELSE IF id \notin DOMAIN payments THEN Reply(op, 404, "NoPayment")
    ELSE IF payments[id].status = "PAID" THEN Reply(op, 400, "PaidNotDeletable")
    ELSE Reply(op, 200, "Deleted")

DeletePayment(u, id) ==
    /\ resp' = DeletePaymentReply(u, id)
    /\ IF DeletePaymentReply(u, id).code = 200
       THEN payments' = [q \in DOMAIN payments \ {id} |-> payments[q]]
       ELSE UNCHANGED payments
    /\ UNCHANGED <<courseVars, attendanceVars, now, users, packages, nextPackageId,
                   nextPaymentId, consumeReq>>

----------------------------------------------------------------------------
(* routes/attendance.js.  The table is a set of rows with their own ids;  *)
(* no unique index on (studentId, courseId) is assumed, so that what keeps *)
(* the pairs unique is the handlers' own checks.                           *)

AttendanceStatuses == {"PRESENT", "ABSENT", "LATE", "LEAVE"}

\* As ExistingRecord, finding nothing
ExistingRecordNone(s, c) == FALSE

\* prisma.attendanceRecord.findUnique({ studentId_courseId })
ExistingRecord(s, c) ==
    \E r \in DOMAIN attendance :
        attendance[r].studentId = s /\ attendance[r].courseId = c

NewRecord(s, c, status) == [studentId |-> s, courseId |-> c, status |-> status]

CreateAttendanceReply(u, b) ==
    LET op == "createAttendance" IN
    IF Gate(u, {"ADMIN", "TEACHER"}) # 200 THEN GateReply(op, u, {"ADMIN", "TEACHER"})
    ELSE IF b.status \notin AttendanceStatuses THEN Reply(op, 400, "Validation")
    ELSE IF b.studentId \notin DOMAIN users \/ users[b.studentId].role # "STUDENT"
        THEN Reply(op, 400, "NoSuchStudent")
    ELSE IF b.courseId \notin DOMAIN courses THEN Reply(op, 404, "NoCourse")
    ELSE IF courses[b.courseId].teacherId # u /\ users[u].role # "ADMIN"
        THEN Reply(op, 403, "Forbidden")
    ELSE IF Link(b.studentId, b.courseId) \notin links THEN Reply(op, 400, "NotEnrolled")
    ELSE IF ExistingRecord(b.studentId, b.courseId) THEN Reply(op, 400, "RecordExists")
    ELSE Reply(op, 201, "Created")

CreateAttendance(u, b) ==
    /\ nextRecordId <= MaxRecords
    /\ resp' = CreateAttendanceReply(u, b)
    /\ IF CreateAttendanceReply(u, b).code = 201
       THEN /\ attendance' = attendance @@
                   (nextRecordId :> NewRecord(b.studentId, b.courseId, b.status))
            /\ nextRecordId' = nextRecordId + 1
       ELSE UNCHANGED attendanceVars
    /\ UNCHANGED <<courseVars, packageVars, now, users>>

\* const studentIds = records.map(r => r.studentId)
StudentIds(records) == [i \in 1..Len(records) |-> records[i].studentId]

IdSet(records) == {records[i].studentId : i \in 1..Len(records)}

\* prisma.user.findMany({ id: { in: studentIds }, role: 'STUDENT' })
BatchStudents(records) ==
    {u \in DOMAIN users : u \in IdSet(records) /\ users[u].role = "STUDENT"}

\* As BatchEnrollments, counting a link for every listed student
BatchEnrollmentsAssumed(records, c) == {Link(x, c) : x \in IdSet(records)}

\* prisma.studentCourse.findMany({ studentId: { in: studentIds }, courseId })
BatchEnrollments(records, c) ==
    {l \in links : l.studentId \in IdSet(records) /\ l.courseId = c}

\* prisma.attendanceRecord.findMany({ courseId, studentId: { in: studentIds } })
BatchExistingRecords(records, c) ==
    {r \in DOMAIN attendance :
        attendance[r].courseId = c /\ attendance[r].studentId \in IdSet(records)}

BatchAttendanceReply(u, c, records) ==
    LET op == "batchAttendance" IN
    IF Gate(u, {"ADMIN", "TEACHER"}) # 200 THEN GateReply(op, u, {"ADMIN", "TEACHER"})
    ELSE IF \E i \in 1..Len(records) : records[i].status \notin AttendanceStatuses
        THEN Reply(op, 400, "Validation")
    ELSE IF c \notin DOMAIN courses THEN Reply(op, 404, "NoCourse")
    ELSE IF courses[c].teacherId # u /\ users[u].role # "ADMIN"
        THEN Reply(op, 403, "Forbidden")
    ELSE IF Cardinality(BatchStudents(records)) # Len(StudentIds(records))
        THEN Reply(op, 400, "NotAllStudents")
    ELSE IF Cardinality(BatchEnrollments(records, c)) # Len(StudentIds(records))
        THEN Reply(op, 400, "NotAllEnrolled")
    ELSE IF Cardinality(BatchExistingRecords(records, c)) > 0
        THEN Reply(op, 400, "RecordExists")
    ELSE Reply(op, 201, "Created")

\* prisma.attendanceRecord.createMany: one row per element of records
CreateMany(c, records) ==
    [i \in nextRecordId..(nextRecordId + Len(records) - 1) |->
        NewRecord(records[i - nextRecordId + 1].studentId, c,
                  records[i - nextRecordId + 1].status)]

BatchAttendance(u, c, records) ==
    /\ nextRecordId + Len(records) - 1 <= MaxRecords
    /\ resp' = BatchAttendanceReply(u, c, records)
    /\ IF BatchAttendanceReply(u, c, records).code = 201
       THEN /\ attendance' = attendance @@ CreateMany(c, records)
            /\ nextRecordId' = nextRecordId + Len(records)
       ELSE UNCHANGED attendanceVars
    /\ UNCHANGED <<courseVars, packageVars, now, users>>

\* As RecordReply, without the permission test
RecordReplyAnyTeacher(op, u, id) ==
    IF Gate(u, {"ADMIN", "TEACHER"}) # 200 THEN GateReply(op, u, {"ADMIN", "TEACHER"})
    ELSE IF id \notin DOMAIN attendance THEN Reply(op, 404, "NoRecord")
    ELSE Reply(op, 200, "Done")

\* The permission test of the update and delete handlers, on the record
\* read with its course; existingRecord.course.teacherId throws when the
\* record's course is gone, and the catch block answers 500
RecordReply(op, u, id) ==
    IF Gate(u, {"ADMIN", "TEACHER"}) # 200 THEN GateReply(op, u, {"ADMIN", "TEACHER"})
    ELSE IF id \notin DOMAIN attendance THEN Reply(op, 404, "NoRecord")
    ELSE IF attendance[id].courseId \notin DOMAIN courses
        THEN Reply(op, 500, "StoreError")
    ELSE IF courses[attendance[id].courseId].teacherId # u /\ users[u].role # "ADMIN"
        THEN Reply(op, 403, "Forbidden")
    ELSE Reply(op, 200, "Done")

UpdateAttendanceReply(u, id, status) ==
    IF Gate(u, {"ADMIN", "TEACHER"}) = 200 /\ status \notin AttendanceStatuses
    THEN Reply("updateAttendance", 400, "Validation")
    ELSE RecordReply("updateAttendance", u, id)

UpdateAttendance(u, id, status) ==
    /\ resp' = UpdateAttendanceReply(u, id, status)
    /\ IF UpdateAttendanceReply(u, id, status).code = 200
       THEN attendance' = [attendance EXCEPT ![id].status = status]
       ELSE UNCHANGED attendance
    /\ UNCHANGED <<courseVars, packageVars, now, users, nextRecordId>>

DeleteAttendance(u, id) ==
    /\ resp' = RecordReply("deleteAttendance", u, id)
    /\ IF RecordReply("deleteAttendance", u, id).code = 200
       THEN attendance' = [r \in DOMAIN attendance \ {id} |-> attendance[r]]
       ELSE UNCHANGED attendance
    /\ UNCHANGED <<courseVars, packageVars, now, users, nextRecordId>>

\* (n / d * 100).toFixed(2), as a whole number of hundredths of a percent,
\* rounded to the nearest
Percent(n, d) == (n * 20000 + d) \div (2 * d)

\* prisma.attendanceRecord.count({ where: { courseId, status } })
RecordCount(c, statuses) ==
    Cardinality({r \in DOMAIN attendance :
        attendance[r].courseId = c /\ attendance[r].status \in statuses})

\* GET /attendance/course/:courseId/statistics: totalStudents counts the
\* studentCourse rows, the count named attendanceRate counts every record
\* of the course, and rate divides the second by the first.
CourseStatistics(c) ==
    LET totalStudents == Cardinality({l \in links : l.courseId = c})
        attendanceRate == RecordCount(c, AttendanceStatuses)
    IN  [ op             |-> "courseStatistics",
          code           |-> 200,
          msg            |-> "Statistics",
          totalStudents  |-> totalStudents,
          presentCount   |-> RecordCount(c, {"PRESENT"}),
          absentCount    |-> RecordCount(c, {"ABSENT"}),
          attendanceRate |-> IF totalStudents > 0
                             THEN Percent(attendanceRate, totalStudents) ELSE 0 ]

CourseStatisticsReply(u, c) ==
    LET op == "courseStatistics" IN
    IF Gate(u, Roles) # 200 THEN GateReply(op, u, Roles)
    ELSE IF c \notin DOMAIN courses THEN Reply(op, 404, "NoCourse")
    ELSE IF courses[c].teacherId # u /\ users[u].role # "ADMIN"
        THEN Reply(op, 403, "Forbidden")
    ELSE CourseStatistics(c)

GetCourseStatistics(u, c) ==
    /\ resp' = CourseStatisticsReply(u, c)
    /\ UNCHANGED <<userFrame, users>>

----------------------------------------------------------------------------
(* The read routes that return attendance records.  A successful response  *)
(* carries, in the field records, the attendance rows it contains.         *)

\* GET /attendance: where.studentId is the query's studentId, overwritten
\* by the caller's id when the caller is a student.  Pagination returns a
\* part of the rows matched; the whole match is the most a caller can page
\* through.
AttendanceListReply(u, q) ==
    LET op == "attendanceList"
        byStudent == IF users[u].role = "STUDENT" THEN {u}
                     ELSE IF "studentId" \in q.present THEN {q.studentId}
                     ELSE {attendance[r].studentId : r \in DOMAIN attendance}
    IN  IF Gate(u, Roles) # 200 THEN GateReply(op, u, Roles)
        ELSE [ op |-> op, code |-> 200, msg |-> "List",
               records |-> {attendance[r] : r \in {x \in DOMAIN attendance :
                                attendance[x].studentId \in byStudent}} ]

GetAttendanceList(u, q) ==
    /\ resp' = AttendanceListReply(u, q)
    /\ UNCHANGED <<userFrame, users>>

\* GET /attendance/:id
AttendanceDetailReply(u, id) ==
    LET op == "attendanceDetail" IN
    IF Gate(u, Roles) # 200 THEN GateReply(op, u, Roles)
    ELSE IF id \notin DOMAIN attendance THEN Reply(op, 404, "NoRecord")
    ELSE IF users[u].role = "STUDENT" /\ attendance[id].studentId # u
        THEN Reply(op, 403, "Forbidden")
    ELSE [op |-> op, code |-> 200, msg |-> "Detail", records |-> {attendance[id]}]

GetAttendanceDetail(u, id) ==
    /\ resp' = AttendanceDetailReply(u, id)
    /\ UNCHANGED <<userFrame, users>>

\* GET /courses/:id: the course is read with include: { attendanceRecords },
\* and a student must be enrolled in it.
CourseDetailReply(u, id) ==
    LET op == "courseDetail" IN
    IF Gate(u, Roles) # 200 THEN GateReply(op, u, Roles)
    ELSE IF id \notin DOMAIN courses THEN Reply(op, 404, "NoCourse")
    ELSE IF users[u].role = "STUDENT" /\ Link(u, id) \notin links
        THEN Reply(op, 403, "Forbidden")
    ELSE [ op |-> op, code |-> 200, msg |-> "Detail",
           records |-> {attendance[r] : r \in {x \in DOMAIN attendance :
                            attendance[x].courseId = id}} ]

GetCourseDetail(u, id) ==
    /\ resp' = CourseDetailReply(u, id)
    /\ UNCHANGED <<userFrame, users>>

----------------------------------------------------------------------------
(* Request bodies *)

CourseBody(present, st, en, mx, cur, status, tid) ==
    [ present |-> present, startTime |-> st, endTime |-> en, maxStudents |-> mx,
      currentStudents |-> cur, status |-> status, teacherId |-> tid ]

\* One field of a course update body
StatusBodies == {CourseBody({"status"}, 0, 0, 0, 0, st, "t1") : st \in CourseStatuses}

CapacityBodies == {CourseBody({"maxStudents"}, 0, 0, m, 0, "SCHEDULED", "t1") : m \in 0..MaxCap}

CountBodies ==
    {CourseBody({"currentStudents"}, 0, 0, 0, n, "SCHEDULED", "t1") : n \in {0, MaxCap}}

\* Course creation bodies with a capacity, in two adjacent windows
SmallCreateBodies ==
    {CourseBody({"startTime", "endTime", "maxStudents"}, w[1], w[2], m, 0, "SCHEDULED", "t1") :
        w \in {<<1, 2>>, <<2, 3>>}, m \in 0..MaxCap}

\* Course creation bodies over every window, without teacherId and with
\* the teacherId of a teacher or of a student
WindowCreateBodies ==
    {CourseBody({"startTime", "endTime"}, s, e, 0, 0, "SCHEDULED", "t1") :
        s \in Times, e \in Times}
    \cup {CourseBody({"startTime", "endTime", "teacherId"}, s, e, 0, 0, "SCHEDULED", t) :
        s \in Times, e \in Times, t \in {"t2", "s1"}}

\* Creation bodies for teacher t1, by t1 or on t1's behalf, in three
\* windows of which two pairs overlap and one pair only touches
ConcurrentCreateBodies ==
    {CourseBody({"startTime", "endTime"}, w[1], w[2], 0, 0, "SCHEDULED", "t1") :
        w \in {<<1, 2>>, <<2, 3>>, <<1, 3>>}}
    \cup {CourseBody({"startTime", "endTime", "teacherId"}, w[1], w[2], 0, 0, "SCHEDULED", "t1") :
        w \in {<<1, 2>>, <<2, 3>>, <<1, 3>>}}

\* Course update bodies that move the window and/or set the status
WindowUpdateBodies ==
    {CourseBody({"startTime"}, s, 0, 0, 0, "SCHEDULED", "t1") : s \in Times}
    \cup {CourseBody({"endTime"}, 0, e, 0, 0, "SCHEDULED", "t1") : e \in Times}
    \cup {CourseBody({"startTime", "endTime"}, s, e, 0, 0, "SCHEDULED", "t1") :
            s \in Times, e \in Times}

PackageBody(totalHours, price, validDays, studentId) ==
    [totalHours |-> totalHours, price |-> price, validDays |-> validDays,
     studentId |-> studentId]

PackageUpdate(present, status, usedHours, totalHours) ==
    [present |-> present, status |-> status, usedHours |-> usedHours,
     totalHours |-> totalHours]

\* Package creation and purchase bodies; totalHours 0 fails validation
SmallPackageBodies == {PackageBody(t, 100, 1, s) : t \in 0..MaxHours, s \in {"s1", "t1"}}

\* The documented field of a package update body
PackageStatusBodies == {PackageUpdate({"status"}, st, 0, 0) : st \in PackageStatuses}

\* Undocumented columns in a package update body
PackageHoursBodies ==
    {PackageUpdate({"usedHours"}, "ACTIVE", h, 0) : h \in {0, MaxHours + 1}}
    \cup {PackageUpdate({"totalHours"}, "ACTIVE", 0, 1)}

\* The package of the scenario: 20 hours, consumed 1, 5 or 10 at a time
ScenarioPackageBodies == {PackageBody(20, 100, 1, "s1")}

ScenarioHours == {1, 5, 10}

PackageIds == 1..MaxPackages

\* User update bodies: without a status, and with each status
UserBodies ==
    {[present |-> {}, status |-> "ACTIVE"]}
    \cup {[present |-> {"status"}, status |-> st] : st \in UserStatuses}

\* User creation bodies: a new student, and the email of an existing user
NewUserBodies == {[email |-> e, role |-> "STUDENT"] : e \in {"n1", "s1"}}

\* Queries of the attendance list: without a studentId and with each
\* student's
ListQueries ==
    {[present |-> {}, studentId |-> "s1"]}
    \cup {[present |-> {"studentId"}, studentId |-> x] : x \in Students}

\* The callers and targets of the user requests
AccountIds == {"a1", "t1", "s1"}

PaymentIds == 1..(MaxPayments + MaxPackages)

\* Standalone payment bodies: of each status, for a student or a teacher,
\* without a package or for package 1; a negative amount fails validation
PaymentBodies ==
    {[present |-> pr, amount |-> a, status |-> st, studentId |-> x, packageId |-> 1] :
        pr \in {{}, {"packageId"}}, a \in {-1, 50}, st \in PaymentStatuses,
        x \in {"s1", "t1"}}

\* One course creation body, so that consume requests have a course
OneCourseBody ==
    CourseBody({"startTime", "endTime", "maxStudents"}, 1, 2, 1, 0, "SCHEDULED", "t1")

RecordIds == 1..MaxRecords

RecordInputs == {"PRESENT", "ABSENT"}

AttendanceBodies ==
    {[studentId |-> s, courseId |-> c, status |-> st] :
        s \in Students \cup {"t2"}, c \in {1}, st \in RecordInputs}

\* The records array of a batch request: up to MaxBatch entries, a student
\* may be listed more than once
BatchEntries == {[studentId |-> s, status |-> "PRESENT"] : s \in Students \cup {"t2"}}

BatchRecords == UNION {[1..n -> BatchEntries] : n \in 0..MaxBatch}

\* A course with room for two students
OneCourseBody2 ==
    CourseBody({"startTime", "endTime", "maxStudents"}, 1, 2, 2, 0, "SCHEDULED", "t1")

CourseIds == 1..MaxCourses

----------------------------------------------------------------------------
(* Specifications *)

\* Courses and enrollment, one request at a time
NextEnroll ==
    \/ \E u \in {"t1", "s1"}, b \in SmallCreateBodies :
          nextCourseId <= MaxEnrollCourses /\ CreateCourse(u, b)
    \/ \E u \in {"a1", "t2"}, id \in CourseIds,
          b \in StatusBodies \cup CapacityBodies \cup CountBodies : UpdateCourse(u, id, b)
    \/ \E u \in {"a1", "t2"}, id \in CourseIds : DeleteCourse(u, id)
    \/ \E u \in Students \cup {"t1"}, id \in CourseIds : Enroll(u, id)
    \/ \E u \in Students \cup {"t1"}, id \in CourseIds : CancelEnroll(u, id)

SpecEnroll == Init /\ [][NextEnroll]_vars

\* The same, with course updates that carry documented fields only
NextCapacity ==
    \/ \E u \in {"t1", "s1"}, b \in SmallCreateBodies :
          nextCourseId <= MaxEnrollCourses /\ CreateCourse(u, b)
    \/ \E u \in {"a1", "t2"}, id \in CourseIds, b \in StatusBodies \cup CapacityBodies :
          UpdateCourse(u, id, b)
    \/ \E u \in {"a1", "t2"}, id \in CourseIds : DeleteCourse(u, id)
    \/ \E u \in Students \cup {"t1"}, id \in CourseIds : Enroll(u, id)
    \/ \E u \in Students \cup {"t1"}, id \in CourseIds : CancelEnroll(u, id)

SpecCapacity == Init /\ [][NextCapacity]_vars

\* Enroll requests of several students in flight at once
NextEnrollConc ==
    \/ \E u \in Teachers, b \in SmallCreateBodies :
          nextCourseId <= MaxEnrollCourses /\ CreateCourse(u, b)
    \/ \E s \in Students, id \in CourseIds : EnrollLookup(s, id)
    \/ \E s \in Students : EnrollCheck(s)
    \/ \E s \in Students : EnrollCommit(s)
    \/ \E s \in Students, id \in CourseIds : CancelEnroll(s, id)

SpecEnrollConc == Init /\ [][NextEnrollConc]_vars

\* A teacher's schedule: creations, and updates of window and of status
NextSchedule ==
    \/ \E u \in Teachers, b \in WindowCreateBodies : CreateCourse(u, b)
    \/ \E u \in {"a1", "t1"}, id \in CourseIds,
          b \in WindowUpdateBodies \cup StatusBodies : UpdateCourse(u, id, b)
    \/ Tick

SpecSchedule == Init /\ [][NextSchedule]_vars

\* Lesson packages, one request at a time
NextPackage ==
    \/ nextCourseId <= MaxEnrollCourses /\ CreateCourse("t1", OneCourseBody)
    \/ \E u \in {"a1", "t1"}, b \in SmallPackageBodies : CreatePackage(u, b)
    \/ \E b \in SmallPackageBodies : Purchase("s1", b)
    \/ \E id \in PackageIds, b \in PackageStatusBodies \cup PackageHoursBodies :
          UpdatePackage("a1", id, b)
    \/ \E id \in PackageIds : DeletePackage("a1", id)
    \/ \E u \in {"t1", "s1"}, id \in PackageIds, h \in 0..MaxHours, c \in {1} :
          Consume(u, id, h, c)
    \/ Tick

SpecPackage == Init /\ [][NextPackage]_vars

\* Consume requests of two teachers in flight at once
NextConsumeConc ==
    \/ nextCourseId <= MaxEnrollCourses /\ CreateCourse("t1", OneCourseBody)
    \/ \E b \in SmallPackageBodies : CreatePackage("a1", b)
    \/ \E u \in Teachers, id \in PackageIds, h \in 1..MaxHours :
          ConsumeRead(u, id, h, 1)
    \/ \E u \in Teachers : ConsumeFindCourse(u)
    \/ \E u \in Teachers : ConsumeWrite(u)

SpecConsumeConc == Init /\ [][NextConsumeConc]_vars

\* The 20-hour package: creation, consumption, status updates, expiry
NextScenario ==
    \/ nextCourseId <= MaxEnrollCourses /\ CreateCourse("t1", OneCourseBody)
    \/ \E b \in ScenarioPackageBodies : CreatePackage("a1", b)
    \/ \E id \in PackageIds, h \in ScenarioHours : Consume("t1", id, h, 1)
    \/ \E id \in PackageIds, b \in PackageStatusBodies : UpdatePackage("a1", id, b)
    \/ Tick

SpecScenario == Init /\ [][NextScenario]_vars

\* Attendance of one course: enrollment, then single and batch creations,
\* updates and deletions
NextAttendance ==
    \/ nextCourseId <= MaxEnrollCourses /\ CreateCourse("t1", OneCourseBody2)
    \/ \E s \in Students : Enroll(s, 1)
    \/ \E u \in {"a1", "t1", "t2"}, b \in AttendanceBodies : CreateAttendance(u, b)
    \/ \E u \in {"a1", "t2"}, records \in BatchRecords : BatchAttendance(u, 1, records)
    \/ \E u \in {"t1", "t2"}, id \in RecordIds, st \in RecordInputs :
          UpdateAttendance(u, id, st)
    \/ \E u \in {"t1", "t2"}, id \in RecordIds : DeleteAttendance(u, id)

SpecAttendance == Init /\ [][NextAttendance]_vars

\* Payments: standalone creation, purchase, status updates, deletion of
\* payments and of packages
NextPayment ==
    \/ \E u \in {"a1", "t1"}, b \in PaymentBodies : CreatePayment(u, b)
    \/ \E b \in {PackageBody(1, 100, 1, "s1")} : Purchase("s1", b)
    \/ \E u \in {"a1", "t1"}, id \in PaymentIds, st \in PaymentStatuses :
          UpdatePaymentStatus(u, id, st)
    \/ \E u \in {"a1", "t1"}, id \in PaymentIds : DeletePayment(u, id)
    \/ \E id \in PackageIds : DeletePackage("a1", id)

SpecPayment == Init /\ [][NextPayment]_vars

\* Accounts: soft deletion, status updates, logins, and requests of the
\* users through the gate
NextAccount ==
    \/ \E u \in AccountIds, id \in AccountIds, b \in UserBodies : UpdateUser(u, id, b)
    \/ \E u \in AccountIds, id \in AccountIds : DeleteUser(u, id)
    \/ \E u \in AccountIds, passwordValid \in BOOLEAN : Login(u, passwordValid)
    \/ \E u \in AccountIds : Me(u)
    \/ \E u \in {"t1", "s1"} :
          nextCourseId <= MaxEnrollCourses /\ CreateCourse(u, OneCourseBody)
    \/ \E u \in {"t1", "s1"} : Enroll(u, 1)

SpecAccount == Init /\ [][NextAccount]_vars

\* Attendance of one course, requested by the admin, the course's teacher,
\* another teacher and a student
NextAttendanceRoles ==
    \/ nextCourseId <= MaxEnrollCourses /\ CreateCourse("t1", OneCourseBody2)
    \/ \E x \in Students : Enroll(x, 1)
    \/ \E u \in {"a1", "t1", "t2", "s1"}, b \in AttendanceBodies : CreateAttendance(u, b)
    \/ \E u \in {"t1", "t2", "s1"}, records \in BatchRecords :
          BatchAttendance(u, 1, records)
    \/ \E u \in {"a1", "t2", "s1"}, id \in RecordIds, st \in RecordInputs :
          UpdateAttendance(u, id, st)
    \/ \E u \in {"t1", "t2", "s1"}, id \in RecordIds : DeleteAttendance(u, id)

SpecAttendanceRoles == Init /\ [][NextAttendanceRoles]_vars

\* Every gated state-changing route, requested by a user of each role
NextRoles ==
    \/ \E u \in {"t1", "s1"} :
          nextCourseId <= MaxEnrollCourses /\ CreateCourse(u, OneCourseBody)
    \/ \E u \in {"t1", "s1"}, b \in {CourseBody({"status"}, 0, 0, 0, 0, "CANCELLED", "t1")} :
          UpdateCourse(u, 1, b)
    \/ \E u \in {"a1", "s1"} : DeleteCourse(u, 1)
    \/ \E u \in {"a1", "t1", "s1"} : Enroll(u, 1)
    \/ \E u \in {"a1", "t1", "s1"} : CancelEnroll(u, 1)
    \/ \E u \in {"t1", "s1"} :
          CreateAttendance(u, [studentId |-> "s1", courseId |-> 1, status |-> "PRESENT"])
    \/ \E u \in {"a1", "t1", "s1"} : CreatePackage(u, PackageBody(1, 100, 1, "s1"))
    \/ \E u \in {"a1", "t1", "s1"} :
          CreatePayment(u, [present |-> {}, amount |-> 50, status |-> "PENDING",
                            studentId |-> "s1", packageId |-> 1])
    \/ \E u \in {"a1", "t1", "s1"}, b \in NewUserBodies : CreateUser(u, b)

SpecRoles == Init /\ [][NextRoles]_vars

\* Attendance of one course and its statistics
NextStatistics ==
    \/ nextCourseId <= MaxEnrollCourses /\ CreateCourse("t1", OneCourseBody2)
    \/ \E x \in Students : Enroll(x, 1)
    \/ \E b \in AttendanceBodies : CreateAttendance("t1", b)
    \/ \E id \in RecordIds, st \in RecordInputs : UpdateAttendance("t1", id, st)
    \/ \E id \in RecordIds : DeleteAttendance("t1", id)
    \/ \E u \in {"t1", "t2"}, c \in {1} : GetCourseStatistics(u, c)

SpecStatistics == Init /\ [][NextStatistics]_vars

\* Attendance of one course and the routes that show it
NextViews ==
    \/ nextCourseId <= MaxEnrollCourses /\ CreateCourse("t1", OneCourseBody2)
    \/ \E x \in Students : Enroll(x, 1)
    \/ \E b \in AttendanceBodies : CreateAttendance("t1", b)
    \/ \E u \in {"s1", "t1"}, q \in ListQueries : GetAttendanceList(u, q)
    \/ \E u \in {"s1", "t2"}, id \in RecordIds : GetAttendanceDetail(u, id)
    \/ \E u \in {"s1", "s2", "t1"} : GetCourseDetail(u, 1)

SpecViews == Init /\ [][NextViews]_vars

\* Course creations of two callers in flight at once
NextCreateConc ==
    \/ \E u \in Teachers, b \in ConcurrentCreateBodies : CreateLookup(u, b)
    \/ \E u \in Teachers : CreateInsert(u)
    \/ Tick

SpecCreateConc == Init /\ [][NextCreateConc]_vars

\* The roster of one course: enrollment and its cancellation, attendance
\* creation, deletion of the course
NextRoster ==
    \/ nextCourseId <= MaxEnrollCourses /\ CreateCourse("t1", OneCourseBody2)
    \/ \E s \in Students : Enroll(s, 1)
    \/ \E s \in Students : CancelEnroll(s, 1)
    \/ \E u \in {"a1", "t2"}, b \in AttendanceBodies : CreateAttendance(u, b)
    \/ \E u \in {"t1", "t2"} : DeleteCourse(u, 1)

SpecRoster == Init /\ [][NextRoster]_vars

----------------------------------------------------------------------------
(* Properties *)

LinksOf(c) == {l \in links : l.courseId = c}

\* C1: every course's currentStudents equals the number of studentCourse
\* rows of that course.
C1_CountEqualsLinks ==
    \A c \in DOMAIN courses : courses[c].currentStudents = Cardinality(LinksOf(c))

\* C2: every course's currentStudents is at most its maxStudents, also
\* after an update that changes maxStudents.
C2_CountWithinCapacity ==
    \A c \in DOMAIN courses : courses[c].currentStudents <= courses[c].maxStudents

\* C3: with enroll requests interleaved at their awaits, the students
\* enrolled in a course never number more than its maxStudents.
C3_EnrolledWithinCapacity ==
    \A c \in DOMAIN courses : Cardinality(LinksOf(c)) <= courses[c].maxStudents

Overlap(r1, r2) == r1.startTime < r2.endTime /\ r2.startTime < r1.endTime

\* C8: no two distinct scheduled or in-progress courses of one teacher
\* have overlapping windows [startTime, endTime).
C8_NoTeacherOverlap ==
    \A c1 \in DOMAIN courses, c2 \in DOMAIN courses :
        /\ c1 # c2
        /\ courses[c1].teacherId = courses[c2].teacherId
        /\ courses[c1].status \in ActiveStatuses
        /\ courses[c2].status \in ActiveStatuses
        => ~Overlap(courses[c1], courses[c2])

\* C9: for every teacher, every window s < e and every excluded course
\* (none at creation, the updated course at update), the conflict query
\* finds a row exactly when another scheduled or in-progress course of the
\* teacher meets the window in a non-empty half-open intersection; a course
\* that only touches the window at an endpoint is no conflict.
C9_ConflictIffOverlap ==
    \A t \in Teachers, s \in Times, e \in Times :
        s < e =>
            \A ex \in {{}} \cup {{c} : c \in DOMAIN courses} :
                ConflictingCourse(courses, t, s, e, ex)
                <=> \E c \in DOMAIN courses \ ex :
                        /\ courses[c].teacherId = t
                        /\ courses[c].status \in ActiveStatuses
                        /\ courses[c].startTime < e
                        /\ s < courses[c].endTime

\* C9 witness: two active courses of one teacher that touch at an endpoint
\* were accepted, and an update into an occupied window was just rejected.
C9_Witness ==
    /\ resp = Reply("updateCourse", 400, "TimeConflict")
    /\ \E c1 \in DOMAIN courses, c2 \in DOMAIN courses :
        /\ c1 # c2
        /\ courses[c1].teacherId = courses[c2].teacherId
        /\ courses[c1].status \in ActiveStatuses
        /\ courses[c2].status \in ActiveStatuses
        /\ courses[c1].endTime = courses[c2].startTime

\* C4: every package's usedHours is at most its totalHours.
C4_UsedWithinTotal ==
    \A p \in DOMAIN packages : packages[p].usedHours <= packages[p].totalHours

UsedUp(p) ==
    /\ p \in DOMAIN packages
    /\ packages[p].usedHours >= packages[p].totalHours
    /\ packages[p].status = "COMPLETED"

C6_SuccessAddsHours ==
    [][\A u \in Teachers :
          /\ consumeReq[u].pc = "found"
          /\ consumeReq'[u].pc = "idle"
          /\ resp'.code = 200
          => packages'[consumeReq[u].id].usedHours
                = packages[consumeReq[u].id].usedHours + consumeReq[u].hours]_vars

Remaining(row) == row.totalHours - row.usedHours

\* C7 as stated: every consume request for more hours than remain is
\* answered with the insufficient-hours error, also on a package that
\* earlier consumptions have used up.
C7_AlwaysInsufficientHours ==
    \A p \in DOMAIN packages, h \in ScenarioHours, c \in DOMAIN courses :
        h > Remaining(packages[p])
        => ConsumeReply("t1", p, h, c) = Reply("consume", 400, "InsufficientHours")

\* C7 as amended: every consume request for more hours than remain is
\* rejected, with the insufficient-hours error when the package is active
\* and not expired, with the not-active error when its status is not
\* ACTIVE, and with the expired error when it is active and expired.  On
\* the 20-hour package an accepted consume of h hours writes usedHours + h
\* (5 twice gives 10, status ACTIVE; 10 more gives 20, status COMPLETED),
\* and a consume of 1 on the used-up package is rejected with the
\* not-active error.
C7_RejectionByState ==
    \A p \in DOMAIN packages, h \in ScenarioHours, c \in DOMAIN courses :
        LET row == packages[p]
            reply == ConsumeReply("t1", p, h, c)
        IN  /\ h > Remaining(row) =>
                reply = Reply("consume", 400,
                              IF row.status # "ACTIVE" THEN "NotActive"
                              ELSE IF row.expiresAt < now THEN "Expired"
                              ELSE "InsufficientHours")
            /\ reply.code = 200 =>
                /\ ConsumedRow(row, h).usedHours = row.usedHours + h
                /\ ConsumedRow(row, h).usedHours <= row.totalHours
                /\ ConsumedRow(row, h).status =
                      IF row.usedHours + h = row.totalHours THEN "COMPLETED" ELSE "ACTIVE"
            /\ row.totalHours = 20 /\ row.usedHours = 20 /\ row.status = "COMPLETED"
                => ConsumeReply("t1", p, 1, c) = Reply("consume", 400, "NotActive")

\* C7 witness: the 20-hour package was consumed to 20 hours, is completed,
\* and a further consume request was just rejected as not active.
C7_Witness ==
    /\ resp = Reply("consume", 400, "NotActive")
    /\ \E p \in DOMAIN packages :
        /\ packages[p].totalHours = 20
        /\ packages[p].usedHours = 20
        /\ packages[p].status = "COMPLETED"

\* C10: at most one attendance record exists for each (student, course)
\* pair.
C10_OneRecordPerPair ==
    \A r1 \in DOMAIN attendance, r2 \in DOMAIN attendance :
        /\ attendance[r1].studentId = attendance[r2].studentId
        /\ attendance[r1].courseId = attendance[r2].courseId
        => r1 = r2

\* C10 witness: a record exists and a creation for a pair that has one
\* was just rejected.
C10_Witness ==
    /\ resp = Reply("createAttendance", 400, "RecordExists")
    /\ attendance # <<>>

\* C11: every attendance record's (student, course) pair has a
\* studentCourse row, after any sequence of enroll, attendance-create,
\* cancel-enrollment and course-delete requests.
C11_RecordsHaveLinks ==
    \A r \in DOMAIN attendance :
        Link(attendance[r].studentId, attendance[r].courseId) \in links

\* A listed student that passes all three validations of a batch
ListedValid(x, c) ==
    /\ x \in DOMAIN users
    /\ users[x].role = "STUDENT"
    /\ Link(x, c) \in links
    /\ ~ExistingRecord(x, c)

NewRecords == DOMAIN attendance' \ DOMAIN attendance

\* C12: a batch attendance request is all-or-nothing.  A batch that lists a
\* student who is not a student-role user, has no enrollment link for the
\* course or already has a record for it is rejected; an accepted batch
\* writes one record for every listed student; and a batch step either
\* leaves the attendance records unchanged (always so when it is rejected)
\* or adds, to the unchanged old records, exactly one record for each of
\* the students it lists, all of them valid.
C12_BatchAllOrNothing ==
    [][/\ \A records \in BatchRecords :
            1 \in DOMAIN courses =>
              LET reply == BatchAttendanceReply("a1", 1, records) IN
              /\ (\E i \in 1..Len(records) : ~ListedValid(records[i].studentId, 1))
                    => reply.code # 201 /\ reply.code >= 400
              /\ reply.code = 201 =>
                    /\ Cardinality(DOMAIN CreateMany(1, records)) = Len(records)
                    /\ \A i \in 1..Len(records) :
                          Cardinality({r \in DOMAIN CreateMany(1, records) :
                              CreateMany(1, records)[r].studentId = records[i].studentId}) = 1
       /\ resp'.op = "batchAttendance" =>
            /\ \A r \in DOMAIN attendance :
                  r \in DOMAIN attendance' /\ attendance'[r] = attendance[r]
            /\ resp'.code # 201 => attendance' = attendance
            /\ resp'.code = 201 =>
                  /\ Cardinality(NewRecords) = nextRecordId' - nextRecordId
                  /\ \A r \in NewRecords :
                        /\ ListedValid(attendance'[r].studentId, attendance'[r].courseId)
                        /\ \A q \in NewRecords :
                              attendance'[q].studentId = attendance'[r].studentId => q = r]_vars

\* C12 witness: with one student enrolled and no record written yet, a
\* batch was just rejected because a listed student is not enrolled, and
\* no record was written.
C12_Witness ==
    /\ resp = Reply("batchAttendance", 400, "NotAllEnrolled")
    /\ Cardinality(links) = 1
    /\ nextRecordId = 1
    /\ attendance = <<>>

C14_RepeatedCancelNotFound ==
    [][/\ \A x \in Students, c \in CourseIds :
            Link(x, c) \notin links
               => CancelEnrollReply(x, c) = Reply("cancelEnroll", 404, "NoEnrollment")
       /\ resp' = Reply("cancelEnroll", 404, "NoEnrollment")
             => links' = links /\ courses' = courses
       /\ resp' = Reply("cancelEnroll", 200, "Cancelled")
             => \E x \in Students, c \in CourseIds :
                   /\ links' = links \ {Link(x, c)}
                   /\ Link(x, c) \in links
                   /\ Link(x, c) \notin links'
                   /\ Gate(x, {"STUDENT"}) = 200]_vars

\* C14 witness: a cancel-enrollment request was just answered not-found on
\* an existing scheduled course that has no link left.
C14_Witness ==
    /\ resp = Reply("cancelEnroll", 404, "NoEnrollment")
    /\ links = {}
    /\ \E c \in DOMAIN courses :
          courses[c].status = "SCHEDULED" /\ courses[c].maxStudents >= 1

\* C15: with requests handled one at a time, an enroll request of a
\* student succeeds exactly when the course exists, is scheduled, the
\* student has no link to it and currentStudents is below maxStudents (at
\* capacity 1 with one student enrolled, another student gets the capacity
\* error); a successful request adds exactly the link of its (student,
\* course) pair and raises that course's currentStudents by exactly 1; a
\* rejected request changes neither links nor courses.
C15_EnrollContract ==
    [][/\ \A x \in Students, c \in CourseIds :
            /\ EnrollReply(x, c).code = 200
                  <=> /\ c \in DOMAIN courses
                      /\ courses[c].status = "SCHEDULED"
                      /\ Link(x, c) \notin links
                      /\ courses[c].currentStudents < courses[c].maxStudents
            /\ /\ c \in DOMAIN courses
               /\ courses[c].status = "SCHEDULED"
               /\ courses[c].maxStudents = 1
               /\ courses[c].currentStudents = 1
               /\ Link(x, c) \notin links
               => EnrollReply(x, c) = Reply("enroll", 400, "CourseFull")
       /\ resp'.op = "enroll" /\ resp'.code # 200
             => links' = links /\ courses' = courses
       /\ resp'.op = "enroll" /\ resp'.code = 200
             => \E x \in Students, c \in DOMAIN courses :
                   /\ Link(x, c) \notin links
                   /\ links' = links \cup {Link(x, c)}
                   /\ courses' = [courses EXCEPT
                                    ![c].currentStudents = courses[c].currentStudents + 1]]_vars

\* C15 witness: on a course of capacity 1 with one student enrolled and
\* counted, an enroll request was just rejected with the capacity error.
C15_Witness ==
    /\ resp = Reply("enroll", 400, "CourseFull")
    /\ \E c \in DOMAIN courses :
          /\ courses[c].maxStudents = 1
          /\ courses[c].currentStudents = 1
          /\ Cardinality(LinksOf(c)) = 1

\* C16: a cancel-enrollment request of a student who holds a link is
\* rejected when the course is not scheduled, leaving links and courses
\* unchanged; when the course is scheduled it removes exactly that
\* student's link, lowers that course's currentStudents by exactly 1 and
\* leaves every other link as it was.
C16_CancelContract ==
    [][/\ \A x \in Students, c \in CourseIds :
            Link(x, c) \in links =>
               /\ courses[c].status # "SCHEDULED"
                     => CancelEnrollReply(x, c) = Reply("cancelEnroll", 400, "AlreadyStarted")
               /\ courses[c].status = "SCHEDULED"
                     => /\ CancelEnrollReply(x, c) = Reply("cancelEnroll", 200, "Cancelled")
                        /\ CancelTx(courses, links, x, c).links = links \ {Link(x, c)}
                        /\ CancelTx(courses, links, x, c).courses =
                              [courses EXCEPT
                                 ![c].currentStudents = courses[c].currentStudents - 1]
       /\ resp'.op = "cancelEnroll" /\ resp'.code # 200
             => links' = links /\ courses' = courses
       /\ resp'.op = "cancelEnroll" /\ resp'.code = 200
             => \E x \in Students, c \in DOMAIN courses :
                   /\ Link(x, c) \in links
                   /\ courses[c].status = "SCHEDULED"
                   /\ links' = links \ {Link(x, c)}
                   /\ courses' = [courses EXCEPT
                                    ![c].currentStudents = courses[c].currentStudents - 1]]_vars

\* C16 witness: with two students enrolled, the course is no longer
\* scheduled and a cancel-enrollment request was just rejected.
C16_Witness ==
    /\ resp = Reply("cancelEnroll", 400, "AlreadyStarted")
    /\ Cardinality(links) = 2
    /\ \E c \in DOMAIN courses : courses[c].status # "SCHEDULED"

\* C17: a course's status only moves forward: a completed or cancelled
\* course keeps its status, and an in-progress course never returns to
\* scheduled.
C17_StatusForward ==
    [][\A c \in DOMAIN courses :
          c \in DOMAIN courses' =>
             /\ courses[c].status \in {"COMPLETED", "CANCELLED"}
                   => courses'[c].status = courses[c].status
             /\ courses[c].status = "IN_PROGRESS"
                   => courses'[c].status # "SCHEDULED"]_vars

\* C18: every change of an existing payment's status starts from PENDING,
\* and no payment that is PAID, FAILED or REFUNDED returns to PENDING.
C18_PaymentStatusMachine ==
    [][\A q \in DOMAIN payments :
          q \in DOMAIN payments' /\ payments'[q].status # payments[q].status
             => payments[q].status = "PENDING"]_vars

\* C19: no payment whose status is PAID is removed from the store, neither
\* by a payment deletion nor by the deletion of its package.
C19_PaidNeverRemoved ==
    [][\A q \in DOMAIN payments :
          payments[q].status = "PAID" => q \in DOMAIN payments']_vars

\* C20: while a user's status is not ACTIVE (after the soft deletion, which
\* sets SUSPENDED, or after a status update), every request that carries
\* the user's token is answered 401 by the gate, whatever roles the route
\* asks for, so no handler is reached and nothing but the response
\* changes; a login with the user's correct password is answered 401; and
\* the status returns to ACTIVE only by a successful user update, made
\* while an admin is active.
C20_InactiveUserLockedOut ==
    [][/\ \A u \in UserIds :
            users[u].status # "ACTIVE" =>
               /\ \A roles \in SUBSET Roles : Gate(u, roles) = 401
               /\ LoginReply(u, TRUE).code = 401
               /\ MeReply(u).code = 401
               /\ \A c \in CourseIds : EnrollReply(u, c).code = 401
               /\ \A c \in CourseIds : CancelEnrollReply(u, c).code = 401
               /\ CreateCourseReply(u, OneCourseBody).code = 401
               /\ \A id \in UserIds, b \in UserBodies :
                     /\ UpdateUserReply(u, id, b).code = 401
                     /\ DeleteUserReply(u, id).code = 401
               /\ users'[u].status = "ACTIVE"
                     => /\ resp' = Reply("updateUser", 200, "Updated")
                        /\ \E a \in Admins : users[a].status = "ACTIVE"
       /\ resp'.code = 401 => UNCHANGED <<users, userFrame>>]_vars

\* C20 witness: student s1 is suspended and s1's enroll request on the
\* existing course was just answered 401.
C20_Witness ==
    /\ users["s1"].status = "SUSPENDED"
    /\ 1 \in DOMAIN courses
    /\ resp = Reply("enroll", 401, "AuthFailed")

\* The acting user is neither an admin nor the teacher of course c
NotCourseStaff(u, c) ==
    /\ users[u].role # "ADMIN"
    /\ c \in DOMAIN courses => courses[c].teacherId # u

AttendanceOps ==
    {"createAttendance", "batchAttendance", "updateAttendance", "deleteAttendance"}

\* C21: an attendance record of a course is created, updated or deleted
\* only by an admin or the teacher of that course.  Every single or batch
\* creation, update and deletion requested by a teacher who does not teach
\* the course, or by a student, is rejected; a rejected attendance request
\* leaves the records unchanged; and the records change only by an
\* accepted attendance request.
C21_OnlyCourseStaffRecords ==
    [][/\ \A u \in UserIds :
            /\ \A b \in AttendanceBodies :
                  NotCourseStaff(u, b.courseId) => CreateAttendanceReply(u, b).code >= 400
            /\ \A records \in BatchRecords :
                  NotCourseStaff(u, 1) => BatchAttendanceReply(u, 1, records).code >= 400
            /\ \A id \in DOMAIN attendance, st \in RecordInputs :
                  NotCourseStaff(u, attendance[id].courseId)
                     => /\ UpdateAttendanceReply(u, id, st).code = 403
                        /\ RecordReply("deleteAttendance", u, id).code = 403
       /\ resp'.op \in AttendanceOps /\ resp'.code >= 400 => attendance' = attendance
       /\ attendance' # attendance
             => resp'.op \in AttendanceOps /\ resp'.code \in {200, 201}]_vars

\* C21 witness: a record exists and an update of it by a teacher who does
\* not teach its course, or by a student, was just rejected.
C21_Witness ==
    /\ resp = Reply("updateAttendance", 403, "Forbidden")
    /\ attendance # <<>>

\* C22: a course that is in progress or completed is never deleted: no
\* step removes it, a delete request on it by the admin or its teacher is
\* answered with the not-deletable error, and a request so answered leaves
\* the courses and the links unchanged.
C22_StartedCourseKept ==
    [][/\ \A c \in DOMAIN courses :
            courses[c].status \in {"IN_PROGRESS", "COMPLETED"} =>
               /\ c \in DOMAIN courses'
               /\ LinksOf(c) \subseteq links' \/ resp'.op # "deleteCourse"
               /\ \A u \in Admins \cup {courses[c].teacherId} :
                     DeleteCourseReply(u, c) = Reply("deleteCourse", 400, "NotDeletable")
       /\ resp' = Reply("deleteCourse", 400, "NotDeletable")
             => courses' = courses /\ links' = links]_vars

\* C22 witness: a delete request on a started course with an enrolled
\* student was just rejected.
C22_Witness ==
    /\ resp = Reply("deleteCourse", 400, "NotDeletable")
    /\ \E c \in DOMAIN courses :
          courses[c].status \in {"IN_PROGRESS", "COMPLETED"} /\ LinksOf(c) # {}

\* C23: with requests handled one at a time, a consume request is accepted
\* only when the package is active, its expiry has not passed and its
\* remaining hours are at least the requested amount; a consume step that
\* changes a package changes one that met these conditions, by an amount
\* within its remaining hours; and every rejected consume request leaves
\* every package as it was.
C23_ConsumeGuarded ==
    [][/\ \A u \in UserIds, p \in PackageIds, h \in 0..MaxHours, c \in CourseIds :
            ConsumeReply(u, p, h, c).code = 200 =>
               /\ p \in DOMAIN packages
               /\ c \in DOMAIN courses
               /\ packages[p].status = "ACTIVE"
               /\ packages[p].expiresAt >= now
               /\ Remaining(packages[p]) >= h
       /\ resp'.op = "consume" /\ now' = now =>
            /\ resp'.code # 200 => packages' = packages
            /\ \A p \in DOMAIN packages :
                  p \in DOMAIN packages' /\ packages'[p] # packages[p] =>
                     /\ resp'.code = 200
                     /\ packages[p].status = "ACTIVE"
                     /\ packages[p].expiresAt >= now
                     /\ packages'[p].usedHours > packages[p].usedHours
                     /\ packages'[p].usedHours - packages[p].usedHours
                           <= Remaining(packages[p])]_vars

\* C23 witness: a consume request on an active package that has expired
\* was just rejected, and the package has no hours used.
C23_Witness ==
    /\ resp = Reply("consume", 400, "Expired")
    /\ \E p \in DOMAIN packages :
          /\ packages[p].status = "ACTIVE"
          /\ packages[p].expiresAt < now
          /\ packages[p].usedHours = 0

\* The user is active and the user's role is not among roles
RoleOutside(u, roles) ==
    /\ u \in DOMAIN users
    /\ users[u].status = "ACTIVE"
    /\ users[u].role \notin roles

Forbidden(op) == Reply(op, 403, "Forbidden")

\* C24: every gated state-changing route enforces its role allow-list.  A
\* request of an active user whose role is outside the route's list (a
\* teacher or admin enrolling or cancelling, a student creating, updating
\* or deleting a course or recording or deleting attendance, a non-admin
\* creating, updating or deleting a package, a payment or a user, a
\* non-student purchasing, a student consuming) is answered with the
\* authorization failure, and a request so answered changes nothing in the
\* store.
C24_RoleAllowList ==
    [][/\ \A u \in DOMAIN users :
            /\ RoleOutside(u, {"STUDENT"}) =>
                  /\ \A c \in CourseIds :
                        /\ EnrollReply(u, c) = Forbidden("enroll")
                        /\ CancelEnrollReply(u, c) = Forbidden("cancelEnroll")
                  /\ PurchaseReply(u, PackageBody(1, 100, 1, "s1")) = Forbidden("purchase")
            /\ RoleOutside(u, {"ADMIN", "TEACHER"}) =>
                  /\ CreateCourseReply(u, OneCourseBody) = Forbidden("createCourse")
                  /\ \A c \in CourseIds :
                        /\ \A b \in StatusBodies :
                              UpdateCourseReply(u, c, b) = Forbidden("updateCourse")
                        /\ DeleteCourseReply(u, c) = Forbidden("deleteCourse")
                  /\ \A b \in AttendanceBodies :
                        CreateAttendanceReply(u, b) = Forbidden("createAttendance")
                  /\ \A records \in BatchRecords :
                        BatchAttendanceReply(u, 1, records) = Forbidden("batchAttendance")
                  /\ \A id \in RecordIds :
                        /\ UpdateAttendanceReply(u, id, "PRESENT") = Forbidden("updateAttendance")
                        /\ RecordReply("deleteAttendance", u, id) = Forbidden("deleteAttendance")
                  /\ \A p \in PackageIds : ConsumeReply(u, p, 1, 1) = Forbidden("consume")
            /\ RoleOutside(u, {"ADMIN"}) =>
                  /\ CreatePackageReply(u, PackageBody(1, 100, 1, "s1"))
                        = Forbidden("createPackage")
                  /\ \A p \in PackageIds :
                        /\ \A b \in PackageStatusBodies :
                              UpdatePackageReply(u, p, b) = Forbidden("updatePackage")
                        /\ DeletePackageReply(u, p) = Forbidden("deletePackage")
                  /\ \A b \in PaymentBodies :
                        CreatePaymentReply(u, b) = Forbidden("createPayment")
                  /\ \A q \in PaymentIds :
                        /\ UpdatePaymentStatusReply(u, q, "PAID")
                              = Forbidden("updatePaymentStatus")
                        /\ DeletePaymentReply(u, q) = Forbidden("deletePayment")
                  /\ \A b \in NewUserBodies : CreateUserReply(u, b) = Forbidden("createUser")
                  /\ \A id \in UserIds : DeleteUserReply(u, id) = Forbidden("deleteUser")
       /\ resp'.code = 403 => UNCHANGED <<users, userFrame>>]_vars

\* C24 witness: with a course, a package and a new user in the store, an
\* enroll request of a teacher or admin was just answered with the
\* authorization failure.
C24_Witness ==
    /\ resp = Forbidden("enroll")
    /\ 1 \in DOMAIN courses
    /\ 1 \in DOMAIN packages
    /\ "n1" \in DOMAIN users

\* C25: the attendance rate that the per-course statistics report is the
\* course's present-count over the count of its attendance records, as a
\* percentage, and 0 when the course has no record.
C25_RateIsPresentOverRecords ==
    \A c \in DOMAIN courses :
        CourseStatistics(c).attendanceRate =
            IF RecordCount(c, AttendanceStatuses) = 0 THEN 0
            ELSE Percent(RecordCount(c, {"PRESENT"}), RecordCount(c, AttendanceStatuses))

\* The attendance rows a response shows
Shown(reply) == IF reply.code = 200 THEN reply.records ELSE {}

\* C26: no response to a student's request for the attendance list, an
\* attendance detail or a course detail shows an attendance record of
\* another student.
C26_StudentSeesOwnRecords ==
    \A x \in Students :
        \A row \in UNION ({Shown(AttendanceListReply(x, q)) : q \in ListQueries}
                         \cup {Shown(AttendanceDetailReply(x, id)) : id \in RecordIds}
                         \cup {Shown(CourseDetailReply(x, c)) : c \in CourseIds}) :
            row.studentId = x

\* C27: with course creations interleaved between conflict query and
\* insert, no teacher has two scheduled courses whose windows overlap.
C27_ConcurrentCreateNoOverlap ==
    \A c1 \in DOMAIN courses, c2 \in DOMAIN courses :
        /\ c1 < c2
        /\ courses[c1].teacherId = courses[c2].teacherId
        /\ courses[c1].status = "SCHEDULED"
        /\ courses[c2].status = "SCHEDULED"
        => \/ courses[c1].endTime <= courses[c2].startTime
           \/ courses[c2].endTime <= courses[c1].startTime

\* C28: only an admin changes a user's status.  An update of another
\* user's record by a non-admin is answered with the authorization
\* failure, which changes no user; and a user's status changes only in a
\* successful user update or soft deletion made while an admin is active,
\* so a non-admin's update of the own account leaves the status as it was.
C28_OnlyAdminChangesStatus ==
    [][/\ \A u \in AccountIds, id \in AccountIds, b \in UserBodies :
            RoleOutside(u, {"ADMIN"}) /\ id # u
               => UpdateUserReply(u, id, b) = Forbidden("updateUser")
       /\ resp' = Forbidden("updateUser") => users' = users
       /\ (\E x \in DOMAIN users : users'[x].status # users[x].status)
             => /\ resp'.op \in {"updateUser", "deleteUser"}
                /\ resp'.code = 200
                /\ \E a \in DOMAIN users :
                      users[a].role = "ADMIN" /\ users[a].status = "ACTIVE"]_vars

\* C28 witness: with no admin active, a user update was just accepted (an
\* update of the own account by a non-admin) and every non-admin is still
\* active.
C28_Witness ==
    /\ resp = Reply("updateUser", 200, "Updated")
    /\ \A a \in Admins : users[a].status # "ACTIVE"
    /\ \A x \in Teachers \cup Students : users[x].status = "ACTIVE"

\* C29: a course update changes the one course it names and there only
\* start time, end time, capacity and status: the enrolled count and the
\* teacher of every course are the same after the request as before, and
\* so is every other course.
C29_UpdateKeepsCountAndTeacher ==
    [][resp'.op = "updateCourse" /\ now' = now
         => /\ DOMAIN courses' = DOMAIN courses
            /\ \A c \in DOMAIN courses :
                  /\ courses'[c].currentStudents = courses[c].currentStudents
                  /\ courses'[c].teacherId = courses[c].teacherId
            /\ \A c1 \in DOMAIN courses, c2 \in DOMAIN courses :
                  courses'[c1] # courses[c1] /\ courses'[c2] # courses[c2]
                     => c1 = c2]_vars

\* C30: course deletion is all-or-nothing.  After a delete request every
\* course is either gone together with all of its enrollment links, or is
\* as it was with the links it had; no course is left standing without
\* the links its enrolled count still counts.
C30_DeleteAllOrNothing ==
    [][resp'.op = "deleteCourse"
         => \A c \in DOMAIN courses :
               \/ /\ c \notin DOMAIN courses'
                  /\ {l \in links' : l.courseId = c} = {}
               \/ /\ c \in DOMAIN courses'
                  /\ courses'[c] = courses[c]
                  /\ {l \in links' : l.courseId = c} = LinksOf(c)]_vars

====
